---- MODULE Spec2Model ----
(***************************************************************************)
(* Voice engine of Clerv-IQ: the client voice registry                     *)
(* (ClientVoiceManager), the voice cloning step it delegates to, and the   *)
(* text-to-speech engine (TTSEngine) with its two-tier backend load.       *)
(* Source: src/voice_engine/clerviq_voice_generator.py and the modules     *)
(* that instantiate the engine.                                            *)
(*                                                                         *)
(* Strings are sequences of tokens so that str.replace(" ", "_") and       *)
(* f-string concatenation are computed; paths are sequences of such        *)
(* strings (one per path component).  A Python dict is a sequence of       *)
(* [key, val] items in insertion order.                                    *)
(***************************************************************************)
EXTENDS Integers, Sequences, FiniteSets, TLC

\* ------------------------------------------------------------------ bounds
MaxClock == 3
MaxCalls == 2
MaxBatch == 2

\* ------------------------------------------------------------------ inputs
None == "None"
\* an optional string or path that is None
NoStr == <<>>
ClientIds == {<<"acme">>, <<"bolt">>}
ClientNames == {"Acme Dental", "Bolt Legal"}
Companies == {""}
VoiceNames == {<<"Dana">>, <<"Dana", " ", "Lee">>, <<"Dana", "_", "Lee">>}
Genders == {"male", "female"}
Accents == {"en"}
AudioInputs == {"missing", "corrupt", "good"}
Managers == {"m1", "m2"}
Workers == {"w1", "w2"}

\* ------------------------------------------------------- strings and paths
RECURSIVE ReplaceSpace(_)
ReplaceSpace(s) ==
    IF s = <<>> THEN <<>>
    ELSE <<IF Head(s) = " " THEN "_" ELSE Head(s)>> \o ReplaceSpace(Tail(s))

ClientVoiceName(client_id, voice_name) == client_id \o <<"_">> \o voice_name

storage_path == <<<<"client_voices">>>>

ClientDir(client_id) == storage_path \o <<client_id>>

VoiceDir(client_id, voice_name) ==
    storage_path \o <<client_id, ReplaceSpace(voice_name)>>

CloneDir(output_dir, voice_name) == output_dir \o <<ReplaceSpace(voice_name)>>

Parents(p) == {SubSeq(p, 1, n) : n \in 1..Len(p)}

\* str(Path): the components joined by "/"
RECURSIVE PathStr(_)
PathStr(p) ==
    IF Len(p) = 0 THEN <<>>
    ELSE IF Len(p) = 1 THEN p[1]
    ELSE p[1] \o <<"/">> \o PathStr(Tail(p))

\* Path(str): the string split at "/"
RECURSIVE SplitPath(_, _)
SplitPath(s, cur) ==
    IF s = <<>> THEN <<cur>>
    ELSE IF Head(s) = "/" THEN <<cur>> \o SplitPath(Tail(s), <<>>)
    ELSE SplitPath(Tail(s), Append(cur, Head(s)))

PathOf(s) == SplitPath(s, <<>>)

\* The directories clone_voice_from_file is given (its default, "voices",
\* when called directly) and the voice directories it then writes: below the
\* output directory, or below the voice directory upload_voice passes.
CloneOutputDirs == {<<"voices">>}

StoreDirs ==
    {CloneDir(PathOf(o), v) : o \in CloneOutputDirs, v \in VoiceNames}
    \cup {CloneDir(VoiceDir(c, v), ClientVoiceName(c, v)) : c \in ClientIds, v \in VoiceNames}

VoiceFileNames == {<<"sample.wav">>, <<"config.json">>, <<"config.npy">>}

StorePaths == {d \o <<f>> : d \in StoreDirs, f \in VoiceFileNames}

\* The content of a voice file: a JSON document, audio samples, an
\* embedding array, or what a write that raised has left of the file.
NoContent == [kind |-> "none", doc |-> <<>>, data |-> <<>>]
Partial == [kind |-> "partial", doc |-> <<>>, data |-> <<>>]
JsonFile(doc) == [kind |-> "json", doc |-> <<doc>>, data |-> <<>>]
WavFile(audio_array) == [kind |-> "wav", doc |-> <<>>, data |-> <<audio_array>>]
NpyFile(embedding) == [kind |-> "npy", doc |-> <<>>, data |-> <<embedding>>]

\* ------------------------------------------------------------ Python dicts
Keys(d) == {d[i].key : i \in 1..Len(d)}

IndexOf(d, k) == CHOOSE i \in 1..Len(d) : d[i].key = k

DictGet(d, k) == d[IndexOf(d, k)].val

DictSet(d, k, v) ==
    IF k \in Keys(d)
    THEN [d EXCEPT ![IndexOf(d, k)] = [key |-> k, val |-> v]]
    ELSE Append(d, [key |-> k, val |-> v])

\* ------------------------------------------------------------ JSON catalog
NoFile == [exists |-> FALSE, doc |-> <<>>]

FileWith(doc) == [exists |-> TRUE, doc |-> doc]

JsonVoice(v) ==
    <<"{", <<"name", v.name>>, <<"path", v.path>>,
           <<"gender", v.gender>>, <<"accent", v.accent>>, "}">>

JsonEntry(e) ==
    <<"{", <<"name", e.name>>, <<"company", e.company>>,
           <<"voices", [j \in 1..Len(e.voices) |-> JsonVoice(e.voices[j])]>>,
           <<"created_at", e.created_at>>, "}">>

JsonDump(d) == [i \in 1..Len(d) |-> <<d[i].key, JsonEntry(d[i].val)>>]

ParseVoice(j) ==
    [name |-> j[2][2], path |-> j[3][2], gender |-> j[4][2], accent |-> j[5][2]]

ParseEntry(j) ==
    [name |-> j[2][2], company |-> j[3][2],
     voices |-> [k \in 1..Len(j[4][2]) |-> ParseVoice(j[4][2][k])],
     created_at |-> j[5][2]]

JsonLoad(doc) == [i \in 1..Len(doc) |-> [key |-> doc[i][1], val |-> ParseEntry(doc[i][2])]]

\* ------------------------------------------------------------------- state
VARIABLES
    clients,    \* clients[m]: the in-memory registry (self.clients) of manager m
    catalog,    \* the persisted catalog document clients.json
    fs,         \* paths (directories and files) that exist under the storage path
    store,      \* store[p]: the content of the voice file at path p
    ctime,      \* ctime[c]: st_ctime of the directory of client c, 0 when absent
    clock,      \* wall clock, one tick per mutating call
    ret,        \* outcome of the last completed ClientVoiceManager call
    uv,         \* uv[w]: the upload_voice call in flight on worker w
    added,      \* history: added[c] = number of add_client calls for c
    upl,        \* history: upl[c] = voice names of the successful uploads for c
    cloneCalls  \* history: number of clone_voice_from_file invocations

mgrVars == <<clients, catalog, fs, store, ctime, clock, ret, uv, added, upl, cloneCalls>>

VARIABLES
    eng,        \* eng[e]: [built, raised, tts]: e is constructed / its constructor
                \* raised / the backend self.tts it holds
    loads,      \* loads[e]: the model loads e's owner attempted, in order
    cloning,    \* the API server's VoiceCloningEngine: "absent", "ready", "raised"
    syn,        \* syn[t]: the synthesize call of request thread t
    ncalls,     \* number of synthesize calls started
    files       \* files[p]: <<text>> whose audio was last written to p, <<>> if none

ttsVars == <<eng, loads, cloning, syn, ncalls, files>>

VARIABLES
    call        \* the last engine call run to completion on its own: its
                \* arguments, what its environment did, and its outcome

callVars == <<call>>

vars == <<mgrVars, ttsVars, callVars>>

Str(x) == <<"str", x>>

Idle == [pc |-> "idle", m |-> "m1", cid |-> <<>>, voice_name |-> <<>>,
         gender |-> "male", accent |-> "en", audio |-> "good"]

Ret(op, cid, status, err, voices, config) ==
    [op |-> op, cid |-> cid, status |-> status, err |-> err,
     voices |-> voices, config |-> config]

\* _load_clients / _save_clients
LoadClients == IF catalog.exists THEN JsonLoad(catalog.doc) ELSE <<>>

SaveClients_Stale(d) == catalog

SaveClients(d) == FileWith(JsonDump(d))

MgrInit ==
    /\ clients = [m \in Managers |-> <<>>]
    /\ catalog = NoFile
    /\ fs = {storage_path}
    /\ store = [p \in StorePaths |-> NoContent]
    /\ ctime = [c \in ClientIds |-> 0]
    /\ clock = 0
    /\ ret = Ret("init", <<>>, "ok", None, <<>>, <<>>)
    /\ uv = [w \in Workers |-> Idle]
    /\ added = [c \in ClientIds |-> 0]
    /\ upl = [c \in ClientIds |-> <<>>]
    /\ cloneCalls = 0

\* ClientVoiceManager.__init__ on a storage path that is already populated
\* (a new instance takes the place of m; no call is in flight on the old one)
Construct(m) ==
    /\ \A w \in Workers : uv[w].pc \in {"idle", "done", "failed"}
    /\ clients' = [clients EXCEPT ![m] = LoadClients]
    /\ ret' = Ret("init", <<>>, "ok", None, <<>>, <<>>)
    /\ UNCHANGED <<catalog, fs, store, ctime, clock, uv, added, upl, cloneCalls>>
    /\ UNCHANGED <<ttsVars, callVars>>

\* the registry entry add_client writes
NewEntry(client_name, company, created) ==
    [name |-> client_name, company |-> company, voices |-> <<>>,
     created_at |-> Str(created)]

AddClientDict(d, client_id, client_name, company, created) ==
    DictSet(d, client_id, NewEntry(client_name, company, created))

AddClient(m, client_id, client_name, company) ==
    LET dir == ClientDir(client_id)
        created == IF dir \in fs THEN ctime[client_id] ELSE clock + 1
        d == AddClientDict(clients[m], client_id, client_name, company, created)
    IN  /\ clock < MaxClock
        /\ clock' = clock + 1
        /\ fs' = fs \cup {dir}
        /\ ctime' = [ctime EXCEPT ![client_id] = created]
        /\ clients' = [clients EXCEPT ![m] = d]
        /\ catalog' = SaveClients(d)
        /\ ret' = Ret("add_client", client_id, "ok", None, <<>>, <<>>)
        /\ added' = [added EXCEPT ![client_id] = @ + 1]
        /\ UNCHANGED <<store, uv, upl, cloneCalls>>
        /\ UNCHANGED <<ttsVars, callVars>>

\* VoiceCloningEngine.clone_voice_from_file: the outcome for an input
\* recording and the paths it creates
\* the dataclass with its defaults; pitch_shift is in hundredths of a
\* semitone, speed and energy in hundredths (1.0 is 100); an optional
\* field that is None is <<>>, an embedding is <<e>>
VoiceConfig(name, gender, accent, is_cloned, sample) ==
    [name |-> name, gender |-> gender, accent |-> accent, emotion |-> "neutral",
     pitch_shift |-> 0, speed |-> 100, energy |-> 100,
     is_cloned |-> is_cloned, voice_sample_path |-> sample, embedding |-> <<>>]

\* Recordings by what the file is: absent, undecodable, or audio of a given
\* length in seconds.
Recordings == AudioInputs \cup {"brief", "minute", "long", "longer"}

Seconds(audio) ==
    CASE audio = "brief" -> 5
      [] audio = "good" -> 45
      [] audio = "minute" -> 60
      [] audio = "long" -> 90
      [] audio = "longer" -> 150
      [] OTHER -> 0

sample_rate == 22050

\* _load_and_preprocess: the recording resampled to sample_rate; an audio
\* array is the run of len samples of the recording that starts at first
LoadAndPreprocess(audio) == [first |-> 0, len |-> Seconds(audio) * sample_rate]

\* audio_array[:n]
Slice(audio_array, n) == [audio_array EXCEPT !.len = IF n < @ THEN n ELSE @]

\* the duration check: len(audio_array) / sr > 120 keeps the first 60 * sr
TrimLong(audio_array, sr) ==
    IF audio_array.len > 120 * sr THEN Slice(audio_array, 60 * sr) ELSE audio_array

\* _extract_embedding: an embedding is identified by the audio array it
\* was computed from
ExtractEmbedding(audio_array, sr) == audio_array

\* VoiceConfig.to_dict: the embedding is not serialized
ToDict(voice_config) == [voice_config EXCEPT !.embedding = <<>>]

\* What can go wrong in a clone after the recording was decoded: the
\* embedding extraction raises; the write of sample.wav raises; config.json
\* cannot be opened, or its write raises; the same for the sidecar config.npy.
Faults ==
    {None, "embedding", "sample_write", "config_open", "config_write",
     "sidecar_open", "sidecar_write"}

CloneError(err, loaded) ==
    [status |-> "error", err |-> err, created |-> {}, writes |-> <<>>, config |-> <<>>,
     loaded |-> loaded, kept |-> <<>>, embedded |-> <<>>]

\* a clone that raised after creating dirs and writing the files of writes
CloneFailed(err, dirs, writes, audio_array) ==
    [status |-> "error", err |-> err,
     created |-> dirs \cup {writes[i].path : i \in 1..Len(writes)},
     writes |-> writes, config |-> <<>>, loaded |-> TRUE,
     kept |-> IF writes = <<>> THEN <<>> ELSE <<audio_array>>,
     embedded |-> <<audio_array>>]

\* The steps of clone_voice_from_file in order, up to the one that raises.
\* loaded: _load_and_preprocess was called; kept: the audio written to
\* sample.wav; embedded: the audio handed to _extract_embedding; writes: the
\* files written, in order, with their content
CloneSteps(audio, voice_name, gender, accent, output_dir, fault) ==
    LET voice_dir == CloneDir(PathOf(output_dir), voice_name)
        sample_path == voice_dir \o <<<<"sample.wav">>>>
        config_path == voice_dir \o <<<<"config.json">>>>
        embedding_path == voice_dir \o <<<<"config.npy">>>>
        audio_array == TrimLong(LoadAndPreprocess(audio), sample_rate)
        embedding == ExtractEmbedding(audio_array, sample_rate)
        voice_config ==
            [VoiceConfig(voice_name, gender, accent, TRUE, PathStr(sample_path))
                EXCEPT !.embedding = <<embedding>>]
        sample == [path |-> sample_path, content |-> WavFile(audio_array)]
        config == [path |-> config_path, content |-> JsonFile(ToDict(voice_config))]
        sidecar == [path |-> embedding_path, content |-> NpyFile(embedding)]
        torn(w) == [w EXCEPT !.content = Partial]
        dirs == Parents(voice_dir)
    IN  IF fault = "embedding"
        THEN [CloneError("EmbeddingError", TRUE) EXCEPT !.embedded = <<audio_array>>]
        ELSE IF fault = "sample_write"
        THEN CloneFailed("OSError", dirs, <<torn(sample)>>, audio_array)
        ELSE IF fault = "config_open"
        THEN CloneFailed("OSError", dirs, <<sample>>, audio_array)
        ELSE IF fault = "config_write"
        THEN CloneFailed("OSError", dirs, <<sample, torn(config)>>, audio_array)
        ELSE IF fault = "sidecar_open"
        THEN CloneFailed("OSError", dirs, <<sample, config>>, audio_array)
        ELSE IF fault = "sidecar_write"
        THEN CloneFailed("OSError", dirs, <<sample, config, torn(sidecar)>>, audio_array)
        ELSE [status |-> "ok", err |-> None,
              created |-> dirs \cup {sample_path, config_path, embedding_path},
              writes |-> <<sample, config, sidecar>>,
              config |-> <<voice_config>>,
              loaded |-> TRUE, kept |-> <<audio_array>>, embedded |-> <<audio_array>>]

CloneVoiceFromFile_LoadFirst(audio, voice_name, gender, accent, output_dir, fault) ==
    IF audio \in {"missing", "corrupt"}
    THEN CloneError("DecodeError", TRUE)
    ELSE CloneSteps(audio, voice_name, gender, accent, output_dir, fault)

\* VoiceCloningEngine.clone_voice_from_file: the existence check, the
\* decoding, and the steps that follow
CloneVoiceFromFile(audio, voice_name, gender, accent, output_dir, fault) ==
    IF audio = "missing"
    THEN CloneError("FileNotFoundError", FALSE)
    ELSE IF audio = "corrupt"
    THEN CloneError("DecodeError", TRUE)
    ELSE CloneSteps(audio, voice_name, gender, accent, output_dir, fault)

\* the files after the writes of a call, in order
WriteFiles(st, writes) ==
    [p \in DOMAIN st |->
        IF \E i \in 1..Len(writes) : writes[i].path = p
        THEN writes[CHOOSE i \in 1..Len(writes) :
                       /\ writes[i].path = p
                       /\ \A j \in (i + 1)..Len(writes) : writes[j].path # p].content
        ELSE st[p]]

\* the clone upload_voice delegates to, with the arguments it passes
UploadClone(client_id, audio, voice_name, gender, accent) ==
    CloneVoiceFromFile(audio, ClientVoiceName(client_id, voice_name), gender, accent,
                       PathStr(VoiceDir(client_id, voice_name)), None)

\* the profile record upload_voice appends
ProfileRecord(client_id, voice_name, gender, accent) ==
    [name |-> voice_name, path |-> PathStr(VoiceDir(client_id, voice_name)),
     gender |-> gender, accent |-> accent]

AppendVoice_Replace(d, client_id, rec) ==
    DictSet(d, client_id, [DictGet(d, client_id) EXCEPT !.voices = <<rec>>])

AppendVoice(d, client_id, rec) ==
    DictSet(d, client_id, [DictGet(d, client_id) EXCEPT !.voices = Append(@, rec)])

\* the existence check that opens upload_voice and get_client_voices
ClientKnown(d, client_id) == client_id \in Keys(d)

\* st_ctime of the client directory after a clone created paths below it
TouchCtime(client_id, created) ==
    IF \E p \in created \ fs : /\ Len(p) = Len(ClientDir(client_id)) + 1
                               /\ SubSeq(p, 1, Len(p) - 1) = ClientDir(client_id)
    THEN [ctime EXCEPT ![client_id] = clock + 1]
    ELSE ctime

\* upload_voice as one computation on the registry d: what it raises or
\* returns, the paths it creates, whether the cloning engine was invoked,
\* and the registry afterwards
UploadOutcome_CloneFirst(d, client_id, audio, voice_name, gender, accent) ==
    LET out == UploadClone(client_id, audio, voice_name, gender, accent)
    IN  IF out.status = "error"
        THEN [status |-> "error", err |-> out.err, created |-> {}, writes |-> <<>>,
              config |-> <<>>, invoked |-> TRUE, dict |-> d]
        ELSE IF ~ClientKnown(d, client_id)
        THEN [status |-> "error", err |-> "ValueError", created |-> out.created,
              writes |-> out.writes, config |-> <<>>, invoked |-> TRUE, dict |-> d]
        ELSE [status |-> "ok", err |-> None, created |-> out.created,
              writes |-> out.writes, config |-> out.config, invoked |-> TRUE,
              dict |-> AppendVoice(d, client_id,
                                   ProfileRecord(client_id, voice_name, gender, accent))]

UploadOutcome_AppendAlways(d, client_id, audio, voice_name, gender, accent) ==
    LET out == UploadClone(client_id, audio, voice_name, gender, accent)
    IN  IF ~ClientKnown(d, client_id)
        THEN [status |-> "error", err |-> "ValueError", created |-> {}, writes |-> <<>>,
              config |-> <<>>, invoked |-> FALSE, dict |-> d]
        ELSE [status |-> out.status, err |-> out.err, created |-> out.created,
              writes |-> out.writes, config |-> out.config, invoked |-> TRUE,
              dict |-> AppendVoice(d, client_id,
                                   ProfileRecord(client_id, voice_name, gender, accent))]

UploadOutcome(d, client_id, audio, voice_name, gender, accent) ==
    LET out == UploadClone(client_id, audio, voice_name, gender, accent)
    IN  IF ~ClientKnown(d, client_id)
        THEN [status |-> "error", err |-> "ValueError", created |-> {}, writes |-> <<>>,
              config |-> <<>>, invoked |-> FALSE, dict |-> d]
        ELSE IF out.status = "error"
        THEN [status |-> "error", err |-> out.err, created |-> out.created,
              writes |-> out.writes, config |-> <<>>, invoked |-> TRUE, dict |-> d]
        ELSE [status |-> "ok", err |-> None, created |-> out.created,
              writes |-> out.writes, config |-> out.config, invoked |-> TRUE,
              dict |-> AppendVoice(d, client_id,
                                   ProfileRecord(client_id, voice_name, gender, accent))]

\* upload_voice, run to completion without interruption
UploadVoice(m, client_id, audio, voice_name, gender, accent) ==
    LET r == UploadOutcome(clients[m], client_id, audio, voice_name, gender, accent)
    IN  /\ clock < MaxClock
        /\ clock' = clock + 1
        /\ fs' = fs \cup r.created
        /\ store' = WriteFiles(store, r.writes)
        /\ ctime' = TouchCtime(client_id, r.created)
        /\ cloneCalls' = IF r.invoked THEN cloneCalls + 1 ELSE cloneCalls
        /\ clients' = [clients EXCEPT ![m] = r.dict]
        /\ catalog' = IF r.status = "ok" THEN SaveClients(r.dict) ELSE catalog
        /\ upl' = IF r.status = "ok"
                  THEN [upl EXCEPT ![client_id] = Append(@, voice_name)] ELSE upl
        /\ ret' = Ret("upload_voice", client_id, r.status, r.err, <<>>, r.config)
        /\ UNCHANGED <<uv, added>>
        /\ UNCHANGED <<ttsVars, callVars>>

\* get_client_voices: what the call returns or raises
GetClientVoicesResult_Default(d, client_id) ==
    IF ~ClientKnown(d, client_id)
    THEN Ret("get_client_voices", client_id, "ok", None, <<>>, <<>>)
    ELSE Ret("get_client_voices", client_id, "ok", None, DictGet(d, client_id).voices, <<>>)

GetClientVoicesResult(d, client_id) ==
    IF ~ClientKnown(d, client_id)
    THEN Ret("get_client_voices", client_id, "error", "ValueError", <<>>, <<>>)
    ELSE Ret("get_client_voices", client_id, "ok", None, DictGet(d, client_id).voices, <<>>)

GetClientVoices(m, client_id) ==
    /\ ret' = GetClientVoicesResult(clients[m], client_id)
    /\ UNCHANGED <<clients, catalog, fs, store, ctime, clock, uv, added, upl, cloneCalls>>
    /\ UNCHANGED <<ttsVars, callVars>>

MgrNext ==
    \/ Construct("m1")
    \/ \E c \in ClientIds, n \in ClientNames, co \in Companies : AddClient("m1", c, n, co)
    \/ \E c \in ClientIds, a \in AudioInputs, v \in VoiceNames, g \in Genders, ac \in Accents :
          UploadVoice("m1", c, a, v, g, ac)
    \/ \E c \in ClientIds : GetClientVoices("m1", c)

\* ------------------------------------------- upload_voice, statement by statement
\* For calls that run concurrently (request threads of one process, or server
\* processes that each hold a ClientVoiceManager on the same storage path)
\* upload_voice is four steps: the existence check, the clone, the append to
\* self.clients, and _save_clients.
UvCall(w, m, client_id, audio, voice_name, gender, accent) ==
    /\ uv[w].pc = "idle"
    /\ uv' = [uv EXCEPT ![w] =
                [pc |-> IF ClientKnown(clients[m], client_id) THEN "clone" ELSE "failed",
                 m |-> m, cid |-> client_id, voice_name |-> voice_name,
                 gender |-> gender, accent |-> accent, audio |-> audio]]
    /\ UNCHANGED <<clients, catalog, fs, store, ctime, clock, ret, added, upl, cloneCalls>>
    /\ UNCHANGED <<ttsVars, callVars>>

UvClone(w) ==
    LET c == uv[w]
        out == UploadClone(c.cid, c.audio, c.voice_name, c.gender, c.accent)
    IN  /\ c.pc = "clone"
        /\ cloneCalls' = cloneCalls + 1
        /\ clock' = clock + 1
        /\ fs' = fs \cup out.created
        /\ store' = WriteFiles(store, out.writes)
        /\ ctime' = TouchCtime(c.cid, out.created)
        /\ uv' = [uv EXCEPT ![w].pc = IF out.status = "ok" THEN "append" ELSE "failed"]
        /\ UNCHANGED <<clients, catalog, ret, added, upl>>
        /\ UNCHANGED <<ttsVars, callVars>>

UvAppend(w) ==
    LET c == uv[w]
    IN  /\ c.pc = "append"
        /\ clients' = [clients EXCEPT ![c.m] =
                          AppendVoice(@, c.cid,
                                      ProfileRecord(c.cid, c.voice_name, c.gender, c.accent))]
        /\ uv' = [uv EXCEPT ![w].pc = "save"]
        /\ UNCHANGED <<catalog, fs, store, ctime, clock, ret, added, upl, cloneCalls>>
        /\ UNCHANGED <<ttsVars, callVars>>

UvSave(w) ==
    LET c == uv[w]
    IN  /\ c.pc = "save"
        /\ catalog' = SaveClients(clients[c.m])
        /\ uv' = [uv EXCEPT ![w].pc = "done"]
        /\ upl' = [upl EXCEPT ![c.cid] = Append(@, c.voice_name)]
        /\ ret' = Ret("upload_voice", c.cid, "ok", None, <<>>, <<>>)
        /\ UNCHANGED <<clients, fs, store, ctime, clock, added, cloneCalls>>
        /\ UNCHANGED <<ttsVars, callVars>>

\* Two server instances started on a storage path on which both clients were
\* registered before: the state after add_client(acme), add_client(bolt) and
\* the construction of both managers.
ConcRegistry ==
    AddClientDict(AddClientDict(<<>>, <<"acme">>, "Acme Dental", "", 1),
                  <<"bolt">>, "Bolt Legal", "", 2)

ConcInit ==
    /\ clients = [m \in Managers |-> ConcRegistry]
    /\ catalog = SaveClients(ConcRegistry)
    /\ fs = {storage_path} \cup {ClientDir(c) : c \in ClientIds}
    /\ store = [p \in StorePaths |-> NoContent]
    /\ ctime = [c \in ClientIds |-> IF c = <<"acme">> THEN 1 ELSE 2]
    /\ clock = 2
    /\ ret = Ret("init", <<>>, "ok", None, <<>>, <<>>)
    /\ uv = [w \in Workers |-> Idle]
    /\ added = [c \in ClientIds |-> 1]
    /\ upl = [c \in ClientIds |-> <<>>]
    /\ cloneCalls = 0

ConcNext ==
    \E w \in Workers :
        \/ \E m \in Managers, c \in ClientIds, a \in AudioInputs, v \in VoiceNames,
              g \in Genders, ac \in Accents : UvCall(w, m, c, a, v, g, ac)
        \/ UvClone(w)
        \/ UvAppend(w)
        \/ UvSave(w)

\* ------------------------------------------------------------- TTSEngine
\* The TTSEngine instances of a process, by the module that builds one:
\* receptionist/tts_engine.py and receptionist_bridge.py at import, the API
\* server in its startup handler, which then also builds a VoiceCloningEngine.
Engines == {"receptionist.tts_engine", "receptionist_bridge", "api_server"}
Threads == {"t1", "t2"}
Texts == {<<>>, <<"h", "i">>}
OutputPaths == {<<<<"static">>, <<"response.wav">>>>}

\* simple_tts.synthesize: the path written when the caller gives none
DefaultSimplePath == <<"output", "/", "speech.mp3">>

\* synthesize_batch: the directories it is given
BatchDirs == {<<"batch">>}

\* format(i, "03d"): the decimal digits of i, zero-padded to width 3
RECURSIVE Decimal(_)
Decimal(n) ==
    IF n < 10 THEN <<(<<"0", "1", "2", "3", "4", "5", "6", "7", "8", "9">>)[n + 1]>>
    ELSE Decimal(n \div 10) \o Decimal(n % 10)

RECURSIVE ZeroPad(_, _)
ZeroPad(s, width) == IF Len(s) >= width THEN s ELSE ZeroPad(<<"0">> \o s, width)

\* f"{output_dir}/speech_{i:03d}.wav"
BatchPath(output_dir, i) ==
    output_dir \o <<"/", "speech_">> \o ZeroPad(Decimal(i), 3) \o <<".wav">>

\* hash(s) in an f-string: the decimal of an integer that, within one
\* process, depends on s alone (two texts with one hash are left out)
Hash(s) == <<"hash(">> \o s \o <<")">>

\* the bridge: f"output/speech_{hash(text)}.wav"
BridgePath(text) == <<"output", "/", "speech_">> \o Hash(text) \o <<".wav">>

\* brain.analyze_message(message): the reply the assistant gives
AnalyzeMessage(message) == <<"re", ":">> \o message

\* tempfile.NamedTemporaryFile(delete=False, suffix=".wav"): the names left
TmpPaths == {<<"tmp", "/", "tmpa.wav">>, <<"tmp", "/", "tmpb.wav">>}

\* the audio files a process can write
AudioPaths ==
    OutputPaths \cup {PathOf(DefaultSimplePath)}
    \cup {PathOf(BatchPath(d, i)) : d \in BatchDirs, i \in 0..MaxBatch}
    \cup {PathOf(BridgePath(x)) : x \in Texts \cup {AnalyzeMessage(m) : m \in Texts}}
    \cup {PathOf(tmp) : tmp \in TmpPaths}

Primary == "xtts_v2"
Secondary == "tacotron2-DDC"

\* PresetVoices.professional_female()
professional_female ==
    [VoiceConfig(<<"Professional", " ", "Female">>, "female", "en", FALSE, NoStr)
        EXCEPT !.emotion = "professional", !.pitch_shift = 100, !.speed = 100, !.energy = 90]

PresetVoices == {professional_female}

professional_male ==
    [VoiceConfig(<<"Professional", " ", "Male">>, "male", "en", FALSE, NoStr)
        EXCEPT !.emotion = "professional", !.pitch_shift = -200, !.speed = 95, !.energy = 90]

friendly_receptionist ==
    [VoiceConfig(<<"Friendly", " ", "Receptionist">>, "female", "en", FALSE, NoStr)
        EXCEPT !.emotion = "friendly", !.pitch_shift = 200, !.speed = 105, !.energy = 110]

luxury_concierge ==
    [VoiceConfig(<<"Luxury", " ", "Concierge">>, "male", "en-gb", FALSE, NoStr)
        EXCEPT !.emotion = "calm", !.pitch_shift = -300, !.speed = 90, !.energy = 80]

enthusiastic_sales ==
    [VoiceConfig(<<"Enthusiastic", " ", "Sales">>, "female", "en", FALSE, NoStr)
        EXCEPT !.emotion = "enthusiastic", !.pitch_shift = 300, !.speed = 110, !.energy = 120]

\* the voice a successful upload_voice("acme", ..., "Dana", ...) returned
ClonedVoice ==
    CloneVoiceFromFile("good", ClientVoiceName(<<"acme">>, <<"Dana">>), "female", "en",
                       PathStr(VoiceDir(<<"acme">>, <<"Dana">>)), None).config[1]

SynthVoices == PresetVoices \cup {ClonedVoice}

NoVoice == VoiceConfig(NoStr, None, None, FALSE, NoStr)

SynIdle == [pc |-> "idle", e |-> None, text |-> <<>>, vc |-> NoVoice, out |-> NoStr,
            status |-> None, err |-> None, value |-> None]

TtsInit ==
    /\ eng = [e \in Engines |-> [built |-> FALSE, raised |-> FALSE, tts |-> None]]
    /\ loads = [o \in Engines \cup {"cloning"} |-> <<>>]
    /\ cloning = "absent"
    /\ syn = [t \in Threads |-> SynIdle]
    /\ ncalls = 0
    /\ files = [p \in AudioPaths |-> NoStr]

\* TTSEngine.__init__: the loads attempted when the primary load ends ok1 and
\* a secondary load would end ok2, and the backend the engine is left with
InitLoads_AlwaysBoth(ok1, ok2) ==
    <<[model |-> Primary, ok |-> ok1], [model |-> Secondary, ok |-> ok2]>>

InitLoads(ok1, ok2) ==
    <<[model |-> Primary, ok |-> ok1]>>
    \o (IF ok1 THEN <<>> ELSE <<[model |-> Secondary, ok |-> ok2]>>)

InitBackend(ok1, ok2) ==
    IF ok1 THEN Primary ELSE IF ok2 THEN Secondary ELSE None

\* both loads sit in try/except Exception: no load failure leaves __init__
InitRaises(ok1, ok2) == FALSE

TTSEngineInit(e, ok1, ok2) ==
    /\ ~eng[e].built /\ ~eng[e].raised
    /\ eng' = [eng EXCEPT ![e] =
                 IF InitRaises(ok1, ok2)
                 THEN [built |-> FALSE, raised |-> TRUE, tts |-> None]
                 ELSE [built |-> TRUE, raised |-> FALSE, tts |-> InitBackend(ok1, ok2)]]
    /\ loads' = [loads EXCEPT ![e] = InitLoads(ok1, ok2)]
    /\ UNCHANGED <<cloning, syn, ncalls, files>>
    /\ UNCHANGED <<mgrVars, callVars>>

\* VoiceCloningEngine.__init__, called by the API server's startup handler
\* after TTSEngine(): loads XTTS-v2 again, outside any try
VoiceCloningEngineInit(ok) ==
    /\ eng["api_server"].built
    /\ cloning = "absent"
    /\ loads' = [loads EXCEPT !["cloning"] = <<[model |-> Primary, ok |-> ok]>>]
    /\ cloning' = IF ok THEN "ready" ELSE "raised"
    /\ UNCHANGED <<eng, syn, ncalls, files>>
    /\ UNCHANGED <<mgrVars, callVars>>

\* synthesize, first statement: the guard on self.tts
BackendMissing_Never(engine) == FALSE

BackendMissing(engine) == engine.tts = None

SynthCall(t, e, text, vc, out) ==
    /\ eng[e].built
    /\ syn[t].pc = "idle"
    /\ ncalls < MaxCalls
    /\ ncalls' = ncalls + 1
    /\ IF BackendMissing(eng[e])
       THEN /\ syn' = [syn EXCEPT ![t] =
                         [pc |-> "done", e |-> e, text |-> text, vc |-> vc, out |-> out,
                          status |-> "error", err |-> "RuntimeError: TTS engine not initialized",
                          value |-> None]]
       ELSE /\ syn' = [syn EXCEPT ![t] =
                         [pc |-> "infer", e |-> e, text |-> text, vc |-> vc, out |-> out,
                          status |-> None, err |-> None, value |-> None]]
    /\ UNCHANGED <<eng, loads, cloning, files>>
    /\ UNCHANGED <<mgrVars, callVars>>

\* synthesize, from the return of self.tts.tts(...) to the end: an exception
\* of the backend is caught and None returned; otherwise the waveform is
\* written to output_path when one was given
SynthFinish(t, raises) ==
    /\ syn[t].pc = "infer"
    /\ IF raises
       THEN /\ syn' = [syn EXCEPT ![t].pc = "done", ![t].status = "ok", ![t].value = None]
            /\ UNCHANGED files
       ELSE IF syn[t].out # NoStr
       THEN /\ syn' = [syn EXCEPT ![t].pc = "done", ![t].status = "ok",
                                  ![t].value = "output_path"]
            /\ files' = [files EXCEPT ![syn[t].out] = <<syn[t].text>>]
       ELSE /\ syn' = [syn EXCEPT ![t].pc = "done", ![t].status = "ok", ![t].value = "waveform"]
            /\ UNCHANGED files
    /\ UNCHANGED <<eng, loads, cloning, ncalls>>
    /\ UNCHANGED <<mgrVars, callVars>>

SynthReturn(t) ==
    /\ syn[t].pc = "done"
    /\ syn' = [syn EXCEPT ![t] = SynIdle]
    /\ UNCHANGED <<eng, loads, cloning, ncalls, files>>
    /\ UNCHANGED <<mgrVars, callVars>>

TtsNext ==
    \/ \E e \in Engines, ok1, ok2 \in BOOLEAN : TTSEngineInit(e, ok1, ok2)
    \/ \E ok \in BOOLEAN : VoiceCloningEngineInit(ok)
    \/ \E t \in Threads, e \in Engines, x \in Texts, vc \in SynthVoices,
          o \in OutputPaths \cup {NoStr} : SynthCall(t, e, x, vc, o)
    \/ \E t \in Threads, raises \in BOOLEAN : SynthFinish(t, raises)
    \/ \E t \in Threads : SynthReturn(t)

\* ------------------------------------------- synthesize, as one computation
\* a text of pathological length, longer than any limit a caller expects
LongText == <<"w", "o", "r", "d", "s", " ", "w", "o", "r", "d", "s", " ", "w", "o", "r", "d", "s">>

\* The text of a request; <<" ">> is a whitespace-only text.
Utterances == Texts \cup {<<" ">>, LongText}

\* str.strip() of the text is empty
IsBlank(text) == \A i \in 1..Len(text) : text[i] = " "

\* pitch_shift, speed and energy as the API overrides them from the request form
PitchShifts == {0, -200}
Speeds == {100, 95}
Energies == {100, 90}

SynthConfigs ==
    {[professional_female EXCEPT !.pitch_shift = p, !.speed = s, !.energy = g] :
        p \in PitchShifts, s \in Speeds, g \in Energies}
    \cup {ClonedVoice}

\* What the environment of a call does: the backend inference returns or
\* raises, one of the prosody steps that run raises, the write of the output
\* file returns or raises; exists is os.path.exists(voice_sample_path).
NoEnv == [infer |-> "ok", prosody |-> None, save |-> "ok", exists |-> FALSE]

SynthEnvs(tts, vc, output_path) ==
    IF tts = None THEN {NoEnv}
    ELSE {env \in [infer : {"ok", "raises"},
                   prosody : {None, "time_stretch", "pitch_shift", "energy"},
                   save : {"ok", "raises"}, exists : BOOLEAN] :
            /\ env.exists => vc.voice_sample_path # NoStr
            /\ env.infer = "raises" => env.prosody = None /\ env.save = "ok"
            /\ env.prosody = "time_stretch" => vc.speed # 100
            /\ env.prosody = "pitch_shift" => vc.pitch_shift # 0
            /\ env.prosody = "energy" => vc.energy # 100
            /\ env.save = "raises" => output_path # NoStr}

\* lines 333-336 and the test of line 341: the language and the speaker
\* sample handed to the backend
Language(vc) == IF vc.accent # None THEN vc.accent ELSE "en"

SpeakerWav_Always(vc, exists) == vc.voice_sample_path

SpeakerWav(vc, exists) ==
    IF vc.voice_sample_path # NoStr /\ exists THEN vc.voice_sample_path ELSE NoStr

\* self.tts.tts(text=text, [speaker_wav=...,] language=language): the request
\* and the waveform it yields; fx lists the transforms applied to it since
BackendRequest(text, vc, exists) ==
    [text |-> text, speaker_wav |-> SpeakerWav(vc, exists), language |-> Language(vc)]

BackendWav(req) ==
    [text |-> req.text, speaker_wav |-> req.speaker_wav, language |-> req.language,
     fx |-> <<>>]

TimeStretch(audio, rate) ==
    [audio EXCEPT !.fx = Append(@, [step |-> "time_stretch", param |-> rate])]

PitchShift(audio, n_steps) ==
    [audio EXCEPT !.fx = Append(@, [step |-> "pitch_shift", param |-> n_steps])]

ScaleAndClip(audio, energy) ==
    [audio EXCEPT !.fx = Append(@, [step |-> "energy", param |-> energy])]

\* _apply_prosody: three guarded steps inside one try; the step named by
\* raises throws, which leaves the try with the audio of the steps before it
ApplyProsody_PitchFirst(audio, config, raises) ==
    LET a1 == IF config.pitch_shift # 0 THEN PitchShift(audio, config.pitch_shift) ELSE audio
        a2 == IF config.speed # 100 THEN TimeStretch(a1, config.speed) ELSE a1
        a3 == IF config.energy # 100 THEN ScaleAndClip(a2, config.energy) ELSE a2
    IN  IF config.pitch_shift # 0 /\ raises = "pitch_shift" THEN audio
        ELSE IF config.speed # 100 /\ raises = "time_stretch" THEN a1
        ELSE IF config.energy # 100 /\ raises = "energy" THEN a2
        ELSE a3

ApplyProsody(audio, config, raises) ==
    LET a1 == IF config.speed # 100 THEN TimeStretch(audio, config.speed) ELSE audio
        a2 == IF config.pitch_shift # 0 THEN PitchShift(a1, config.pitch_shift) ELSE a1
        a3 == IF config.energy # 100 THEN ScaleAndClip(a2, config.energy) ELSE a2
    IN  IF config.speed # 100 /\ raises = "time_stretch" THEN audio
        ELSE IF config.pitch_shift # 0 /\ raises = "pitch_shift" THEN a1
        ELSE IF config.energy # 100 /\ raises = "energy" THEN a2
        ELSE a3

\* The outcome of a synthesize call: whether it raised, the kind of value it
\* returned (None, the waveform or the output path), the requests made to
\* the backend, and the file it wrote.
SynRes(status, err, kind, path, wav, backend, written) ==
    [status |-> status, err |-> err, kind |-> kind, path |-> path, wav |-> wav,
     backend |-> backend, written |-> written]

\* TTSEngine.synthesize
Synthesize(tts, text, vc, output_path, env) ==
    IF tts = None
    THEN SynRes("error", "RuntimeError: TTS engine not initialized", None, NoStr,
                <<>>, <<>>, <<>>)
    ELSE LET req == BackendRequest(text, vc, env.exists)
             wav == ApplyProsody(BackendWav(req), vc, env.prosody)
         IN  IF env.infer = "raises"
             THEN SynRes("ok", None, None, NoStr, <<>>, <<req>>, <<>>)
             ELSE IF output_path # NoStr
             THEN IF env.save = "raises"
                  THEN SynRes("error", "OSError", None, NoStr, <<>>, <<req>>, <<>>)
                  ELSE SynRes("ok", None, "output_path", output_path, <<>>, <<req>>,
                              <<[path |-> PathOf(output_path), audio |-> wav]>>)
             ELSE SynRes("ok", None, "waveform", NoStr, <<wav>>, <<req>>, <<>>)

\* simple_tts.TTSEngine.synthesize: gTTS(text, lang='en', tld).save(path)
SimpleSynthesize(text, vc, output_path, env) ==
    LET path == IF output_path = NoStr THEN DefaultSimplePath ELSE output_path
        req == [text |-> text, speaker_wav |-> NoStr, language |-> "en"]
    IN  IF env.infer = "raises"
        THEN SynRes("error", "gTTSError", None, NoStr, <<>>, <<req>>, <<>>)
        ELSE SynRes("ok", None, "output_path", path, <<>>, <<req>>,
                    <<[path |-> PathOf(path), audio |-> BackendWav(req)]>>)

\* the audio files after a call that wrote the files of written, in order
WriteAll(w, written) ==
    [p \in DOMAIN w |->
        IF \E i \in 1..Len(written) : written[i].path = p
        THEN <<written[CHOOSE i \in 1..Len(written) :
                          /\ written[i].path = p
                          /\ \A j \in (i + 1)..Len(written) : written[j].path # p].audio.text>>
        ELSE w[p]]

NoCall == [op |-> "none"]

\* one synthesize call on the engine of a process, from entry to return
SynthesizeCall(tts, text, vc, output_path, env) ==
    /\ env \in SynthEnvs(tts, vc, output_path)
    /\ LET res == Synthesize(tts, text, vc, output_path, env)
       IN  /\ call' = [op |-> "synthesize", engine |-> "TTSEngine", tts |-> tts,
                       text |-> text, vc |-> vc, out |-> output_path, env |-> env,
                       res |-> res]
           /\ files' = WriteAll(files, res.written)
    /\ UNCHANGED <<eng, loads, cloning, syn, ncalls>>
    /\ UNCHANGED mgrVars

\* one synthesize call on the engine the package falls back to
SimpleSynthesizeCall(text, vc, output_path, raises) ==
    LET env == [NoEnv EXCEPT !.infer = IF raises THEN "raises" ELSE "ok"]
        res == SimpleSynthesize(text, vc, output_path, env)
    IN  /\ call' = [op |-> "synthesize", engine |-> "simple_tts", tts |-> "gTTS",
                    text |-> text, vc |-> vc, out |-> output_path, env |-> env,
                    res |-> res]
        /\ files' = WriteAll(files, res.written)
        /\ UNCHANGED <<eng, loads, cloning, syn, ncalls>>
        /\ UNCHANGED mgrVars

SynthNext ==
    \/ \E tts \in {Primary, None}, x \in Utterances, vc \in SynthConfigs,
          o \in {PathStr(p) : p \in OutputPaths} \cup {NoStr} :
            \E env \in SynthEnvs(tts, vc, o) : SynthesizeCall(tts, x, vc, o, env)
    \/ \E x \in Utterances, vc \in PresetVoices,
          o \in {PathStr(p) : p \in OutputPaths} \cup {NoStr}, raises \in BOOLEAN :
            SimpleSynthesizeCall(x, vc, o, raises)

\* ------------------------------------------------------------ synthesize_batch
BatchTexts == {<<>>, <<"h", "i">>}
\* what the environment does to one item of a batch
BatchEnvs ==
    {NoEnv, [NoEnv EXCEPT !.infer = "raises"], [NoEnv EXCEPT !.save = "raises"]}

\* The loop of synthesize_batch from item k on: synthesize is called on the
\* item, an exception it raises leaves the loop and the method, its return
\* value is dropped, and the item's path is appended.
RECURSIVE BatchLoop(_, _, _, _, _, _, _)
BatchLoop(tts, texts, vc, output_dir, envs, k, acc) ==
    IF k > Len(texts)
    THEN [acc EXCEPT !.status = "ok"]
    ELSE LET output_path == BatchPath(output_dir, k - 1)
             res == Synthesize(tts, texts[k], vc, output_path, envs[k])
             seen == [acc EXCEPT !.results = Append(@, res),
                                 !.written = @ \o res.written]
         IN  IF res.status = "error"
             THEN [seen EXCEPT !.status = "error", !.err = res.err]
             ELSE BatchLoop(tts, texts, vc, output_dir, envs, k + 1,
                            [seen EXCEPT !.output_paths = Append(@, output_path)])

\* TTSEngine.synthesize_batch: status "ok" returns output_paths, status
\* "error" raises err; results are the outcomes of the synthesize calls made
SynthesizeBatch(tts, texts, vc, output_dir, envs) ==
    BatchLoop(tts, texts, vc, output_dir, envs, 1,
              [status |-> None, err |-> None, output_paths |-> <<>>,
               results |-> <<>>, written |-> <<>>])

SynthesizeBatchCall(tts, texts, vc, output_dir, envs) ==
    /\ \A k \in 1..Len(texts) : envs[k] \in SynthEnvs(tts, vc, BatchPath(output_dir, k - 1))
    /\ LET res == SynthesizeBatch(tts, texts, vc, output_dir, envs)
       IN  /\ call' = [op |-> "synthesize_batch", engine |-> "TTSEngine", tts |-> tts,
                       texts |-> texts, vc |-> vc, dir |-> output_dir, envs |-> envs,
                       res |-> res]
           /\ files' = WriteAll(files, res.written)
    /\ UNCHANGED <<eng, loads, cloning, syn, ncalls>>
    /\ UNCHANGED mgrVars

BatchNext ==
    \E tts \in {Primary, None}, n \in 0..MaxBatch, d \in BatchDirs :
        \E texts \in [1..n -> BatchTexts], envs \in [1..n -> BatchEnvs] :
            SynthesizeBatchCall(tts, texts, professional_female, d, envs)

CallInit == call = NoCall

\* ------------------------------------------- clone_voice_from_file, called directly
CloneCall(audio, voice_name, gender, accent, output_dir, fault) ==
    LET res == CloneVoiceFromFile(audio, voice_name, gender, accent, output_dir, fault)
    IN  /\ call' = [op |-> "clone_voice_from_file", audio |-> audio,
                    voice_name |-> voice_name, output_dir |-> output_dir,
                    fault |-> fault, res |-> res]
        /\ fs' = fs \cup res.created
        /\ store' = WriteFiles(store, res.writes)
        /\ UNCHANGED <<clients, catalog, ctime, clock, ret, uv, added, upl, cloneCalls>>
        /\ UNCHANGED ttsVars

CloneNext ==
    \E audio \in Recordings, voice_name \in VoiceNames, gender \in Genders,
       accent \in Accents, output_dir \in CloneOutputDirs :
        CloneCall(audio, voice_name, gender, accent, output_dir, None)

\* ------------------------------------------------------------- load_voice
\* the values of the enumerations
VoiceGender == {"male", "female", "neutral"}
Accent ==
    {"en", "en-gb", "en-au", "es", "fr", "de", "it", "pt", "pl", "tr", "ru", "nl",
     "cs", "ar", "zh-cn", "ja", "ko"}
Emotion ==
    {"neutral", "happy", "sad", "angry", "excited", "calm", "confident",
     "professional", "friendly", "enthusiastic"}

LoadError(err) == [status |-> "error", err |-> err, config |-> <<>>]

FileAt(st, p) == IF p \in DOMAIN st THEN st[p] ELSE NoContent

\* VoiceCloningEngine.load_voice on the files f with the contents st:
\* config.json must exist and parse, the enumerations are rebuilt from their
\* values, and the embedding is read from config.npy when that file exists
LoadVoiceIn_NoSidecar(f, st, voice_dir) ==
    LET config_path == PathOf(voice_dir) \o <<<<"config.json">>>>
    IN  IF config_path \notin f
        THEN LoadError("FileNotFoundError")
        ELSE IF FileAt(st, config_path).kind # "json"
        THEN LoadError("JSONDecodeError")
        ELSE [status |-> "ok", err |-> None, config |-> FileAt(st, config_path).doc]

LoadVoiceIn(f, st, voice_dir) ==
    LET config_path == PathOf(voice_dir) \o <<<<"config.json">>>>
        embedding_path == PathOf(voice_dir) \o <<<<"config.npy">>>>
        config_dict == FileAt(st, config_path).doc[1]
    IN  IF config_path \notin f
        THEN LoadError("FileNotFoundError")
        ELSE IF FileAt(st, config_path).kind # "json"
        THEN LoadError("JSONDecodeError")
        ELSE IF ~(/\ config_dict.gender \in VoiceGender
                  /\ config_dict.accent \in Accent
                  /\ config_dict.emotion \in Emotion)
        THEN LoadError("ValueError")
        ELSE IF embedding_path \notin f
        THEN [status |-> "ok", err |-> None, config |-> <<config_dict>>]
        ELSE IF FileAt(st, embedding_path).kind # "npy"
        THEN LoadError("ValueError")
        ELSE [status |-> "ok", err |-> None,
              config |-> <<[config_dict EXCEPT
                               !.embedding = FileAt(st, embedding_path).data]>>]

LoadVoice(voice_dir) == LoadVoiceIn(fs, store, voice_dir)

LoadVoiceCall(voice_dir) ==
    /\ call' = [op |-> "load_voice", voice_dir |-> voice_dir, res |-> LoadVoice(voice_dir)]
    /\ UNCHANGED <<mgrVars, ttsVars>>

\* clones into one voice directory, some of which fail part-way, and
\* load_voice on what they leave
StoreVoiceNames == {<<"Dana", " ", "Lee">>, <<"Dana", "_", "Lee">>}

StoreNext ==
    \/ \E audio \in {"good", "long", "corrupt"}, voice_name \in StoreVoiceNames,
          accent \in Accents, output_dir \in CloneOutputDirs, fault \in Faults :
            CloneCall(audio, voice_name, "female", accent, output_dir, fault)
    \/ \E voice_name \in StoreVoiceNames, output_dir \in CloneOutputDirs :
            LoadVoiceCall(PathStr(CloneDir(PathOf(output_dir), voice_name)))

\* ------------------------------------------------- the callers of synthesize
\* the names of the preset voices
PresetNames == {"professional_male", "professional_female", "friendly_receptionist",
                "luxury_concierge", "enthusiastic_sales"}

\* a voice selector of a request: a preset name or any other string
Selectors == PresetNames \cup {"robot"}

\* voice_presets / preset_map of generate_speech, the bridge and /api/synthesize
VoicePresets ==
    [k \in PresetNames |->
        CASE k = "professional_male" -> professional_male
          [] k = "professional_female" -> professional_female
          [] k = "friendly_receptionist" -> friendly_receptionist
          [] k = "luxury_concierge" -> luxury_concierge
          [] k = "enthusiastic_sales" -> enthusiastic_sales]

\* preset_map of /api/receptionist/speak
ReceptionistPresets ==
    [k \in {"friendly_receptionist", "professional_male", "professional_female"} |->
        VoicePresets[k]]

\* dict.get(key, default)
PresetGet(d, k, default) == IF k \in DOMAIN d THEN d[k] ELSE default

\* the emotion field of a request form
FormEmotions == {"neutral", "sarcastic"}

\* what the environment of a caller's synthesize does: the inference returns
\* or raises
CallerEnvs(tts, vc, output_path) ==
    {env \in SynthEnvs(tts, vc, output_path) : env.prosody = None /\ env.save = "ok"}

\* a handler that returned without calling synthesize
NoSynth == SynRes(None, None, None, NoStr, <<>>, <<>>, <<>>)

\* a file that exists and holds no audio
EmptyAudio == <<<<>>>>

\* The outcome of a caller: the selector and text of the request, whether it
\* ended in an error, the HTTP status (0 for a plain function), the voice it
\* passed to synthesize (none when it did not call it), and what synthesize did.
CallerCall(op, selector, text, status, code, used, res) ==
    [op |-> op, selector |-> selector, text |-> text, status |-> status, code |-> code,
     used |-> used, res |-> res]

CallerFrame ==
    /\ UNCHANGED <<eng, loads, cloning, syn, ncalls>>
    /\ UNCHANGED mgrVars

\* receptionist.tts_engine.generate_speech
GenerateSpeech(tts, text, voice_type, filename, env) ==
    LET voice_config == PresetGet(VoicePresets, voice_type, professional_female)
        output_path == <<"static", "/">> \o filename
        res == Synthesize(tts, text, voice_config, output_path, env)
    IN  /\ env \in CallerEnvs(tts, voice_config, output_path)
        /\ call' = CallerCall("generate_speech", voice_type, text, res.status, 0,
                              <<voice_config>>, res)
        /\ files' = WriteAll(files, res.written)
        /\ CallerFrame

\* receptionist_bridge.speak_text
SpeakText(tts, text, voice_type, env) ==
    LET voice_config == PresetGet(VoicePresets, voice_type, professional_female)
        audio_path == BridgePath(text)
        res == Synthesize(tts, text, voice_config, audio_path, env)
    IN  IF text = <<>>
        THEN /\ call' = CallerCall("speak_text", voice_type, text, "error", 400, <<>>, NoSynth)
             /\ UNCHANGED files
             /\ CallerFrame
        ELSE /\ env \in CallerEnvs(tts, voice_config, audio_path)
             /\ call' = CallerCall("speak_text", voice_type, text, res.status,
                                   IF res.status = "ok" THEN 200 ELSE 500,
                                   <<voice_config>>, res)
             /\ files' = WriteAll(files, res.written)
             /\ CallerFrame

\* receptionist_bridge.process_full_pipeline
ProcessFullPipeline(tts, message, voice_type, brain_ok, env) ==
    LET analysis == AnalyzeMessage(message)
        voice_config == PresetGet(VoicePresets, voice_type, professional_female)
        audio_path == BridgePath(analysis)
        res == Synthesize(tts, analysis, voice_config, audio_path, env)
    IN  IF message = <<>>
        THEN /\ call' = CallerCall("process_full_pipeline", voice_type, message, "error",
                                   400, <<>>, NoSynth)
             /\ UNCHANGED files
             /\ CallerFrame
        ELSE IF ~brain_ok
        THEN /\ call' = CallerCall("process_full_pipeline", voice_type, message, "error",
                                   500, <<>>, NoSynth)
             /\ UNCHANGED files
             /\ CallerFrame
        ELSE /\ env \in CallerEnvs(tts, voice_config, audio_path)
             /\ call' = CallerCall("process_full_pipeline", voice_type, message, res.status,
                                   IF res.status = "ok" THEN 200 ELSE 500,
                                   <<voice_config>>, res)
             /\ files' = WriteAll(files, res.written)
             /\ CallerFrame

\* api_server.synthesize_speech, without client_id and voice_name, with the
\* form's default pitch_shift, speed and energy
SynthesizeSpeech(tts, text, voice_preset, emotion, tmp_path, env) ==
    LET voice_config ==
            [VoicePresets[voice_preset] EXCEPT !.pitch_shift = 0, !.speed = 100,
                                               !.energy = 100, !.emotion = emotion]
        res == Synthesize(tts, text, voice_config, tmp_path, env)
    IN  IF voice_preset \notin DOMAIN VoicePresets \/ emotion \notin Emotion
        THEN /\ call' = CallerCall("synthesize_speech", voice_preset, text, "error", 500,
                                   <<>>, NoSynth)
             /\ UNCHANGED files
             /\ CallerFrame
        ELSE /\ files[PathOf(tmp_path)] = NoStr
             /\ env \in CallerEnvs(tts, voice_config, tmp_path)
             /\ call' = CallerCall("synthesize_speech", voice_preset, text, res.status,
                                   IF res.status = "ok" THEN 200 ELSE 500,
                                   <<voice_config>>, res)
             /\ files' = WriteAll([files EXCEPT ![PathOf(tmp_path)] = EmptyAudio], res.written)
             /\ CallerFrame

\* api_server.receptionist_speak, without client_id
ReceptionistSpeak(tts, text, voice_id, tmp_path, env) ==
    LET voice_config == PresetGet(ReceptionistPresets, voice_id, friendly_receptionist)
        res == Synthesize(tts, text, voice_config, tmp_path, env)
    IN  /\ files[PathOf(tmp_path)] = NoStr
        /\ env \in CallerEnvs(tts, voice_config, tmp_path)
        /\ call' = CallerCall("receptionist_speak", voice_id, text, res.status,
                              IF res.status = "ok" THEN 200 ELSE 500,
                              <<voice_config>>, res)
        /\ files' = WriteAll([files EXCEPT ![PathOf(tmp_path)] = EmptyAudio], res.written)
        /\ CallerFrame

\* the backend of the engine a caller's module holds
CallerBackends == {Primary, None}

CallersNext ==
    \/ \E tts \in CallerBackends, x \in Texts, v \in Selectors :
          \E env \in CallerEnvs(tts, PresetGet(VoicePresets, v, professional_female),
                                <<"static", "/", "response.wav">>) :
              GenerateSpeech(tts, x, v, <<"response.wav">>, env)
    \/ \E tts \in CallerBackends, x \in Texts, v \in Selectors :
          \E env \in CallerEnvs(tts, professional_female, BridgePath(x)) :
              SpeakText(tts, x, v, env)
    \/ \E tts \in CallerBackends, m \in Texts, v \in Selectors, brain_ok \in BOOLEAN :
          \E env \in CallerEnvs(tts, professional_female, BridgePath(AnalyzeMessage(m))) :
              ProcessFullPipeline(tts, m, v, brain_ok, env)
    \/ \E tts \in CallerBackends, x \in Texts \ {<<>>}, v \in Selectors, em \in FormEmotions,
          tmp \in TmpPaths :
          \E env \in CallerEnvs(tts, professional_female, tmp) :
              SynthesizeSpeech(tts, x, v, em, tmp, env)
    \/ \E tts \in CallerBackends, x \in Texts \ {<<>>}, v \in Selectors, tmp \in TmpPaths :
          \E env \in CallerEnvs(tts, professional_female, tmp) :
              ReceptionistSpeak(tts, x, v, tmp, env)

\* ------------------------------------------------------- app.voice_reply
\* request.form.get("SpeechResult", "Hello from ClervIQ."): what callers said
SpeechResults == {<<"h", "i">>, <<"b", "y", "e">>}

\* the file every reply is written to and every response points at
ResponseWav == <<<<"static">>, <<"response.wav">>>>

\* voice_reply, up to the entry of synthesize inside generate_speech
VoiceReply(t, user_input) ==
    SynthCall(t, "receptionist.tts_engine", user_input, professional_female, ResponseWav)

\* voice_reply, after generate_speech: an exception of synthesize ends the
\* request; otherwise the TwiML with <Play> of static/response.wav is returned
VoiceReplyReturn(t) ==
    /\ syn[t].pc = "done"
    /\ syn[t].out = ResponseWav
    /\ IF syn[t].status = "error"
       THEN /\ syn' = [syn EXCEPT ![t] = SynIdle]
            /\ call' = [op |-> "voice_reply", thread |-> t, text |-> syn[t].text,
                        status |-> "error"]
       ELSE /\ syn' = [syn EXCEPT ![t].pc = "responded"]
            /\ call' = [op |-> "voice_reply", thread |-> t, text |-> syn[t].text,
                        status |-> "ok"]
    /\ UNCHANGED <<eng, loads, cloning, ncalls, files>>
    /\ UNCHANGED mgrVars

\* the telephony service fetches the URL of the <Play> verb and plays the
\* file to the caller of request t
ServeAudio(t) ==
    /\ syn[t].pc = "responded"
    /\ call' = [op |-> "play", thread |-> t, text |-> syn[t].text,
                written |-> syn[t].value = "output_path", audio |-> files[syn[t].out]]
    /\ syn' = [syn EXCEPT ![t] = SynIdle]
    /\ UNCHANGED <<eng, loads, cloning, ncalls, files>>
    /\ UNCHANGED mgrVars

ReplyNext ==
    \/ \E ok1, ok2 \in BOOLEAN : TTSEngineInit("receptionist.tts_engine", ok1, ok2)
    \/ \E t \in Threads, x \in SpeechResults : VoiceReply(t, x)
    \/ \E t \in Threads, raises \in BOOLEAN : SynthFinish(t, raises)
    \/ \E t \in Threads : VoiceReplyReturn(t)
    \/ \E t \in Threads : ServeAudio(t)

\* ---------------------------------------------------------- specifications
Init == MgrInit /\ TtsInit /\ CallInit

InitConc == ConcInit /\ TtsInit /\ CallInit

\* the registry used by one manager, call after call
SpecMgr == Init /\ [][MgrNext]_vars

\* upload_voice calls that interleave, on one or two manager instances
SpecConc == InitConc /\ [][ConcNext]_vars

\* engine construction and synthesize calls on request threads
SpecTTS == Init /\ [][TtsNext]_vars

\* synthesize calls, one at a time, on the engine and on its fallback
SpecSynth == Init /\ [][SynthNext]_vars

\* synthesize_batch calls, one at a time
SpecBatch == Init /\ [][BatchNext]_vars

\* clone_voice_from_file calls, one at a time
SpecClone == Init /\ [][CloneNext]_vars

\* clone_voice_from_file calls that can fail at any step, and load_voice
SpecStore == Init /\ [][StoreNext]_vars
SpecCallers == Init /\ [][CallersNext]_vars
SpecReply == Init /\ [][ReplyNext]_vars

Next ==
    MgrNext \/ ConcNext \/ TtsNext \/ SynthNext \/ BatchNext \/ CloneNext \/ StoreNext
    \/ CallersNext \/ ReplyNext

Spec == Init /\ [][Next]_vars

\* ------------------------------------------- claims on the sequential registry
\* the manager instance the sequential claims are stated for
Mgr == "m1"

Voices(d, client_id) == DictGet(d, client_id).voices

\* C1: add_client with a client_id that is already registered fails with an
\* error and leaves the existing entry unchanged in memory and in the catalog.
C1_DuplicateAddRejected ==
    [][\A c \in ClientIds :
          (/\ ret'.op = "add_client" /\ ret'.cid = c /\ clock' = clock + 1
           /\ c \in Keys(clients[Mgr]))
          => (ret'.status = "error" /\ clients' = clients /\ catalog' = catalog)]_vars

\* C2: in every reachable state no client's voices list holds two profile
\* records with the same voice name.
C2_VoiceNamesUnique ==
    \A i \in 1..Len(clients[Mgr]) :
        LET vs == clients[Mgr][i].val.voices
        IN  \A a, b \in 1..Len(vs) : a # b => vs[a].name # vs[b].name

\* C4: upload_voice for a client_id that is not registered raises the
\* not-found ValueError before the cloning engine is invoked, creates no path
\* on disk and leaves registry and catalog unchanged.
C4_UnknownClientUploadFails ==
    [][\A c \in ClientIds :
          (/\ ret'.op = "upload_voice" /\ ret'.cid = c /\ clock' = clock + 1
           /\ c \notin Keys(clients[Mgr]))
          => (/\ ret'.status = "error" /\ ret'.err = "ValueError"
              /\ cloneCalls' = cloneCalls /\ fs' = fs
              /\ clients' = clients /\ catalog' = catalog)]_vars

C4_Witness ==
    /\ ret.op = "upload_voice" /\ ret.err = "ValueError"
    /\ ret.cid \notin Keys(clients[Mgr])
    /\ Len(clients[Mgr]) > 0

C6_UploadAppendsOne ==
    /\ [][\A c \in ClientIds :
            (/\ ret'.op = "upload_voice" /\ ret'.cid = c /\ ret'.status = "ok"
             /\ clock' = clock + 1)
            => /\ Keys(clients'[Mgr]) = Keys(clients[Mgr])
               /\ Len(Voices(clients'[Mgr], c)) = Len(Voices(clients[Mgr], c)) + 1
               /\ SubSeq(Voices(clients'[Mgr], c), 1, Len(Voices(clients[Mgr], c)))
                     = Voices(clients[Mgr], c)
               /\ \E v \in VoiceNames, g \in Genders, a \in Accents :
                     LET rec == Voices(clients'[Mgr], c)[Len(Voices(clients'[Mgr], c))]
                     IN  /\ rec.name = v /\ rec.gender = g /\ rec.accent = a
                         /\ upl'[c] = Append(upl[c], v)
                         /\ ret'.config[1].name = c \o <<"_">> \o v
               /\ \A o \in Keys(clients[Mgr]) \ {c} :
                     DictGet(clients'[Mgr], o) = DictGet(clients[Mgr], o)
               /\ catalog'.exists /\ JsonLoad(catalog'.doc) = clients'[Mgr]]_vars
    /\ [](ret.op = "get_client_voices" /\ added[ret.cid] = 1 /\ Len(upl[ret.cid]) = 1
            => /\ ret.status = "ok" /\ Len(ret.voices) = 1
               /\ ret.voices[1].name = upl[ret.cid][1])

C6_Witness ==
    /\ ret.op = "get_client_voices" /\ added[ret.cid] = 1 /\ Len(upl[ret.cid]) = 1
    /\ Len(ret.voices) = 1
    /\ Len(clients[Mgr]) = 2

\* --------------------------------------------- claims on concurrent uploads
CatalogHas(client_id, voice_name) ==
    /\ catalog.exists
    /\ client_id \in Keys(JsonLoad(catalog.doc))
    /\ \E i \in 1..Len(Voices(JsonLoad(catalog.doc), client_id)) :
          Voices(JsonLoad(catalog.doc), client_id)[i].name = voice_name

\* C3: when two upload_voice calls for two different registered clients have
\* both completed, whatever their interleaving and whichever manager instance
\* served each, the persisted catalog holds both new profile records.
C3_NoLostRegistration ==
    \A w1, w2 \in Workers :
        (/\ w1 # w2 /\ uv[w1].pc = "done" /\ uv[w2].pc = "done"
         /\ uv[w1].cid # uv[w2].cid)
        => (/\ CatalogHas(uv[w1].cid, uv[w1].voice_name)
            /\ CatalogHas(uv[w2].cid, uv[w2].voice_name))

\* ------------------------------------------------------ claims on TTSEngine
\* both loads of e's constructor failed
NoBackend(e) ==
    /\ eng[e].built /\ Len(loads[e]) = 2
    /\ ~loads[e][1].ok /\ ~loads[e][2].ok

ConfigError == "RuntimeError: TTS engine not initialized"

\* C7: once both loads failed at construction the engine stays without a
\* backend: no later step loads a model for it, and every synthesize call on
\* it ends at once in the same configuration error, without entering backend
\* inference and without writing a file.
C7_NoBackendPermanent ==
    /\ [][\A e \in Engines :
            NoBackend(e) =>
               /\ eng[e].tts = None /\ eng'[e] = eng[e] /\ loads'[e] = loads[e]
               /\ \A t \in Threads :
                     (syn[t].pc = "idle" /\ syn'[t].pc # "idle" /\ syn'[t].e = e)
                     => (/\ syn'[t].pc = "done" /\ syn'[t].status = "error"
                         /\ syn'[t].err = ConfigError /\ files' = files)]_vars
    /\ [](\A t \in Threads : syn[t].pc = "infer" => ~NoBackend(syn[t].e))

C7_Witness ==
    \E t \in Threads :
        /\ syn[t].pc = "done" /\ syn[t].err = ConfigError
        /\ NoBackend(syn[t].e)
        /\ ncalls >= 2

\* C8: construction never raises; the primary load is attempted first, the
\* secondary load is attempted exactly when the primary load failed, and the
\* engine holds the primary backend if it loaded, else the secondary if it
\* loaded, else none.
C8_TwoTierFallback ==
    \A e \in Engines :
        /\ ~eng[e].raised
        /\ eng[e].built <=> loads[e] # <<>>
        /\ eng[e].built =>
              LET a == loads[e]
              IN  /\ a[1].model = Primary
                  /\ Len(a) = 2 <=> ~a[1].ok
                  /\ Len(a) = 2 => a[2].model = Secondary
                  /\ Len(a) \in {1, 2}
                  /\ eng[e].tts = IF a[1].ok THEN Primary
                                  ELSE IF a[2].ok THEN Secondary ELSE None

C8_Witness ==
    \E e1, e2 \in Engines :
        /\ eng[e1].tts = Secondary /\ Len(loads[e1]) = 2
        /\ eng[e2].tts = Primary /\ Len(loads[e2]) = 1

SuccessfulLoads(model) ==
    Cardinality({<<o, i>> \in (Engines \cup {"cloning"}) \X {1, 2} :
                    /\ i <= Len(loads[o]) /\ loads[o][i].model = model /\ loads[o][i].ok})

\* C9: within one process each backend model is loaded at most once, whatever
\* modules are imported or initialised.
C9_LoadedAtMostOnce ==
    \A model \in {Primary, Secondary} : SuccessfulLoads(model) <= 1

\* C10: in no reachable state are two inference calls active on the same
\* engine instance.
C10_InferenceSerialized ==
    \A t1, t2 \in Threads :
        (t1 # t2 /\ syn[t1].pc = "infer" /\ syn[t2].pc = "infer")
        => syn[t1].e # syn[t2].e

\* ------------------------------------------------- claims on synthesize
\* the last call was a synthesize on a TTSEngine that holds a backend
OnLoadedEngine ==
    /\ call.op = "synthesize"
    /\ call.engine = "TTSEngine"
    /\ call.tts # None

\* C11: when the backend throws during inference, the synthesize call ends
\* in an error raised to its caller: it returns no value and writes no file.
C11_InferenceErrorPropagates ==
    (OnLoadedEngine /\ call.env.infer = "raises") =>
        /\ call.res.status = "error"
        /\ call.res.kind = None
        /\ call.res.written = <<>>

\* C12: for an empty or whitespace-only text, synthesize on a loaded engine
\* hands the backend a non-blank fallback utterance instead of the text, and
\* returns its audio when inference and the write succeed.
C12_BlankTextFallback ==
    (OnLoadedEngine /\ IsBlank(call.text)) =>
        /\ call.res.backend # <<>>
        /\ \A i \in 1..Len(call.res.backend) : ~IsBlank(call.res.backend[i].text)
        /\ (call.env.infer = "ok" /\ call.env.save = "ok") =>
              (call.res.status = "ok" /\ call.res.kind \in {"waveform", "output_path"})

\* the audio a successful synthesize produced: the waveform it returned or
\* the one it wrote
Produced ==
    IF call.res.wav # <<>> THEN call.res.wav[1] ELSE call.res.written[1].audio

GaveAudio == call.res.status = "ok" /\ call.res.kind \in {"waveform", "output_path"}

\* C13: synthesize hands the backend a speaker sample exactly when the voice
\* is cloned and its sample file exists, and then that very sample; for a
\* voice that is not cloned the single backend request carries no sample.
C13_SpeakerSampleIffCloned ==
    OnLoadedEngine =>
        /\ Len(call.res.backend) = 1
        /\ call.res.backend[1].speaker_wav # NoStr
              <=> (call.vc.is_cloned /\ call.env.exists)
        /\ call.res.backend[1].speaker_wav # NoStr
              => call.res.backend[1].speaker_wav = call.vc.voice_sample_path
        /\ ~call.vc.is_cloned => call.res.backend[1].speaker_wav = NoStr

C13_Witness ==
    /\ OnLoadedEngine
    /\ call.vc.is_cloned
    /\ call.env.exists
    /\ call.res.backend[1].speaker_wav = call.vc.voice_sample_path
    /\ GaveAudio

\* the prosody steps whose parameter is not neutral (speed 1.0, pitch shift
\* 0.0, energy 1.0), in the order time-stretch, pitch-shift, energy
NonNeutral(vc) ==
    (IF vc.speed # 100 THEN <<[step |-> "time_stretch", param |-> vc.speed]>> ELSE <<>>)
    \o (IF vc.pitch_shift # 0
        THEN <<[step |-> "pitch_shift", param |-> vc.pitch_shift]>> ELSE <<>>)
    \o (IF vc.energy # 100 THEN <<[step |-> "energy", param |-> vc.energy]>> ELSE <<>>)

IsPrefix(s, t) == Len(s) <= Len(t) /\ s = SubSeq(t, 1, Len(s))

C15_OnlyFailedStepSkipped ==
    (OnLoadedEngine /\ call.env.infer = "ok" /\ call.env.save = "ok"
        /\ call.env.prosody # None) =>
        /\ GaveAudio
        /\ Produced.fx = SelectSeq(NonNeutral(call.vc),
                                   LAMBDA s : s.step # call.env.prosody)

\* C16: a successful synthesize with an output path writes the audio to
\* that path and returns that path; with no output path it returns the
\* waveform and writes no file; this on the TTSEngine and on the simple_tts
\* fallback engine alike.
C16_OutputPathContract ==
    (call.op = "synthesize" /\ call.tts # None /\ GaveAudio) =>
        IF call.out # NoStr
        THEN /\ call.res.kind = "output_path"
             /\ call.res.path = call.out
             /\ Len(call.res.written) = 1
             /\ call.res.written[1].path = PathOf(call.out)
             /\ files[PathOf(call.out)] = <<call.text>>
        ELSE /\ call.res.kind = "waveform"
             /\ call.res.written = <<>>

\* ------------------------------------------- claims on synthesize_batch
\* item k of the last batch produced no audio file: its synthesize raised
\* or returned None
ItemFailed(k) ==
    \/ k > Len(call.res.results)
    \/ call.res.results[k].status = "error"
    \/ call.res.results[k].written = <<>>

\* C17: synthesize_batch returns one path per text, the k-th being the
\* file that the synthesis of the k-th text wrote.
C17_BatchPathsWritten ==
    (call.op = "synthesize_batch" /\ call.res.status = "ok") =>
        /\ Len(call.res.output_paths) = Len(call.texts)
        /\ \A k \in 1..Len(call.res.output_paths) :
              /\ ~ItemFailed(k)
              /\ call.res.results[k].written[1].path = PathOf(call.res.output_paths[k])
              /\ call.res.results[k].written[1].audio.text = call.texts[k]
              /\ files[PathOf(call.res.output_paths[k])] = <<call.texts[k]>>

\* C18: a failing item does not abort synthesize_batch: the call returns,
\* synthesize has been called on every item, and the entry returned for a
\* failed item is not the path returned for a successful one.
C18_BatchSurvivesItemFailure ==
    call.op = "synthesize_batch" =>
        /\ call.res.status = "ok"
        /\ Len(call.res.results) = Len(call.texts)
        /\ \A k \in 1..Len(call.res.output_paths) :
              ItemFailed(k) => call.res.output_paths[k] # BatchPath(call.dir, k - 1)

\* ------------------------------------------- claims on clone_voice_from_file
\* C19: clone_voice_from_file on an audio path that does not exist raises
\* FileNotFoundError without loading any audio and creates nothing on disk.
C19_MissingAudioRejected ==
    [][(call'.op = "clone_voice_from_file" /\ call'.audio = "missing") =>
          /\ call'.res.status = "error"
          /\ call'.res.err = "FileNotFoundError"
          /\ ~call'.res.loaded
          /\ call'.res.kept = <<>>
          /\ call'.res.embedded = <<>>
          /\ fs' = fs]_vars

C19_Witness ==
    /\ call.op = "clone_voice_from_file"
    /\ call.audio = "missing"
    /\ call.res.err = "FileNotFoundError"
    /\ \E p \in fs : Len(p) > 1

\* C20: a recording longer than 60 seconds after preprocessing is cut to
\* its first 60 * sample_rate samples, for the persisted sample and for the
\* embedding extraction alike; a recording of at most 60 seconds is kept whole.
C20_LongRecordingTruncated ==
    (call.op = "clone_voice_from_file" /\ call.res.status = "ok") =>
        LET whole == LoadAndPreprocess(call.audio)
            limit == 60 * sample_rate
        IN  /\ call.res.kept = call.res.embedded
            /\ call.res.kept =
                  <<IF whole.len > limit THEN [first |-> 0, len |-> limit] ELSE whole>>

\* ------------------------------------------- claims on stored voice profiles
\* the voice directory a clone call writes, as the string given to load_voice
CallDir(c) == PathStr(CloneDir(PathOf(c.output_dir), c.voice_name))

\* C21: a clone_voice_from_file call that fails leaves no voice directory
\* that load_voice accepts, and a profile that load_voice accepted before the
\* call is left exactly as it was.
C21_CloneAllOrNothing ==
    [][(call'.op = "clone_voice_from_file" /\ call'.res.status = "error") =>
          IF LoadVoiceIn(fs, store, CallDir(call')).status = "ok"
          THEN fs' = fs /\ store' = store
          ELSE LoadVoiceIn(fs', store', CallDir(call')).status = "error"]_vars

\* C22: after a successful clone_voice_from_file, load_voice on the voice
\* directory the clone wrote returns a VoiceConfig equal in every field to
\* the one the clone returned; load_voice on a directory without config.json
\* raises FileNotFoundError.
C22_LoadVoiceRoundTrip ==
    /\ (call.op = "clone_voice_from_file" /\ call.res.status = "ok") =>
          LoadVoice(CallDir(call)) =
              [status |-> "ok", err |-> None, config |-> call.res.config]
    /\ (call.op = "load_voice"
           /\ PathOf(call.voice_dir) \o <<<<"config.json">>>> \notin fs) =>
          call.res = LoadError("FileNotFoundError")

C22_Witness ==
    /\ call.op = "clone_voice_from_file"
    /\ call.res.status = "ok"
    /\ call.voice_name = <<"Dana", " ", "Lee">>
    /\ LoadVoice(CallDir(call)).status = "ok"
    /\ LoadVoice(CallDir(call)).config[1].embedding = call.res.config[1].embedding
    /\ call.res.config[1].embedding # <<>>
    /\ LoadVoice(CallDir(call)).config[1].name = <<"Dana", " ", "Lee">>

\* a cloned voice carries a sample path and an embedding, a voice that is
\* not cloned carries neither
ValidConfig(vc) ==
    IF vc.is_cloned
    THEN vc.voice_sample_path # NoStr /\ vc.embedding # <<>>
    ELSE vc.voice_sample_path = NoStr /\ vc.embedding = <<>>

\* C23: every VoiceConfig that a preset constructor, clone_voice_from_file
\* or load_voice produces is cloned with sample path and embedding, or not
\* cloned with neither.
C23_ConfigInvariant ==
    /\ \A vc \in PresetVoices : ValidConfig(vc)
    /\ (call.op \in {"clone_voice_from_file", "load_voice"} /\ call.res.status = "ok") =>
          ValidConfig(call.res.config[1])

\* C24: a text of pathological length does not reach the backend in one
\* piece: synthesize raises, or every request it makes to the backend
\* carries a shorter text.
C24_TextBounded ==
    (OnLoadedEngine /\ call.text = LongText) =>
        \/ call.res.status = "error"
        \/ \A i \in 1..Len(call.res.backend) :
              Len(call.res.backend[i].text) < Len(LongText)

\* ------------------------------------------- claims on the voice registry
\* C26: after a successful upload_voice, load_voice on the path of the
\* profile record it appended succeeds and returns the VoiceConfig that
\* upload_voice returned.
C26_RecordPathLoads ==
    (ret.op = "upload_voice" /\ ret.status = "ok") =>
        LET voices == Voices(clients[Mgr], ret.cid)
            rec == voices[Len(voices)]
        IN  LoadVoice(rec.path) = [status |-> "ok", err |-> None, config |-> ret.config]

\* list_clients: the entries in the order of the registry
ListClients(d) == [i \in 1..Len(d) |-> [id |-> d[i].key, data |-> d[i].val]]

C28_FailedCloneAppendsNothing ==
    [][(/\ ret'.op = "upload_voice" /\ ret'.status = "error"
        /\ ret'.err # "ValueError" /\ clock' = clock + 1)
       => (clients' = clients /\ catalog' = catalog)]_vars

C28_Witness ==
    /\ ret.op = "upload_voice"
    /\ ret.status = "error"
    /\ ret.err = "DecodeError"
    /\ ClientKnown(clients[Mgr], ret.cid)
    /\ Len(Voices(clients[Mgr], ret.cid)) = 1
    /\ cloneCalls = 2

\* C29: two profile records of one client with different voice names have
\* different paths.
C29_DistinctNamesDistinctPaths ==
    \A i \in 1..Len(clients[Mgr]) :
        LET voices == clients[Mgr][i].val.voices
        IN  \A j, k \in 1..Len(voices) :
                voices[j].name # voices[k].name => voices[j].path # voices[k].path

\* ------------------------------------------- claims on the callers of synthesize
\* C25: a caller that is given a voice selector outside the five preset
\* names ends in an error and does not call synthesize with any voice.
C25_UnknownSelectorRejected ==
    (/\ call.op \in {"generate_speech", "speak_text", "process_full_pipeline",
                     "synthesize_speech", "receptionist_speak"}
     /\ call.selector \notin PresetNames)
    => (call.status = "error" /\ call.used = <<>>)

\* ------------------------------------------------ claims on voice_reply
\* C30: the audio played to the caller of a voice_reply request that wrote
\* its reply is the audio synthesized from that request's own text, also
\* when another request is handled at the same time.
C30_OwnAudioPlayed ==
    (call.op = "play" /\ call.written) => call.audio = <<call.text>>

============================================================================
